---- MODULE Spec2Model ----
(***************************************************************************)
(* A model of fusi's Router (src/fusi/router.py) and Route                 *)
(* (src/fusi/route.py).                                                    *)
(*                                                                         *)
(* Python values are tagged records [t |-> <type name>, v |-> <chars>]:    *)
(* a str is the sequence of its characters, so that concatenation and      *)
(* startswith are computed and not assumed.  A dict is the sequence of its *)
(* (key, value) items in insertion order.  A Route object carries the      *)
(* identity `id` it got when it was constructed.                           *)
(***************************************************************************)
EXTENDS Integers, Sequences, FiniteSets, TLC

VARIABLES
    pc,                  \* "new": no Router yet; "ready": constructed; "failed": __init__ raised
    self_name,           \* Router._name
    self_prefix,         \* Router._prefix
    self_routes,         \* Router._routes, a dict in insertion order
    cache,               \* the lru_cache of Router.match_pattern, least recently used first
    added_after_lookup,  \* a route was registered after match_pattern filled the cache
    returned,            \* the Routes the add_route calls have returned, in order
    seen,                \* the match_pattern results got since the last registration
    last                 \* the last call: its arguments and its outcome

vars == <<pc, self_name, self_prefix, self_routes, cache, added_after_lookup,
          returned, seen, last>>

----------------------------------------------------------------------------
(* Bounds of the model *)

\* match_pattern is not called with new arguments once the cache holds
\* MaxCacheEntries results
MaxCacheEntries == 1

\* the longest `methods` list a Route is made from
MaxMethods == 3

\* functools.lru_cache's default maxsize
LruMaxSize == 128

----------------------------------------------------------------------------
(* Python values *)

None == [t |-> "NoneType", v |-> <<>>]

Str(chars) == [t |-> "str", v |-> chars]

Int1 == [t |-> "int", v |-> <<"1">>]

\* a lambda
Fn == [t |-> "function", v |-> <<"f">>]

NoError == "none"

isinstance_str(x) == x.t = "str"

callable(x) == x.t = "function"

\* bool(x), as `if x:` takes it
truthy(x) ==
    CASE x.t = "NoneType" -> FALSE
      [] x.t = "str"      -> Len(x.v) > 0
      [] x.t = "int"      -> x.v /= <<"0">>
      [] OTHER            -> TRUE

\* s.startswith(p) for two str
startswith(s, p) ==
    /\ Len(s.v) >= Len(p.v)
    /\ SubSeq(s.v, 1, Len(p.v)) = p.v

\* a + b for two str
concat(a, b) == Str(a.v \o b.v)

Slash == Str(<<"/">>)

Dot == Str(<<".">>)

\* c.upper() for one character
upper_char(c) ==
    CASE c = "g" -> "G"
      [] c = "e" -> "E"
      [] c = "t" -> "T"
      [] c = "p" -> "P"
      [] c = "o" -> "O"
      [] c = "s" -> "S"
      [] OTHER   -> c

\* s.upper() for a str
upper(s) == Str([i \in 1..Len(s.v) |-> upper_char(s.v[i])])

----------------------------------------------------------------------------
(* dict, in insertion order *)

dict_contains(d, k) == \E i \in 1..Len(d) : d[i].key = k

\* d[k]: the value, or KeyError
dict_getitem(d, k) ==
    IF dict_contains(d, k)
    THEN [raised |-> NoError, value |-> d[CHOOSE i \in 1..Len(d) : d[i].key = k].value]
    ELSE [raised |-> "KeyError", value |-> None]

\* d[k] = v: a present key keeps its place, a new key goes last
dict_set(d, k, v) ==
    IF dict_contains(d, k)
    THEN [i \in 1..Len(d) |-> IF d[i].key = k THEN [key |-> k, value |-> v] ELSE d[i]]
    ELSE Append(d, [key |-> k, value |-> v])

\* list(d.values())
dict_values(d) == [i \in 1..Len(d) |-> d[i].value]

----------------------------------------------------------------------------
(* Route (src/fusi/route.py) *)

\* an argument for `methods`: a list of values, or a value that is no iterable
List(items) == [t |-> "list", items |-> items]

NotIterable == [t |-> "int", items |-> <<>>]

iterable(m) == m.t = "list"

\* upper_set without the upper(): set(i for i in methods)
upper_set_as_given(m) == {m.items[i] : i \in 1..Len(m.items)}

\* set(i.upper() for i in methods), for a list of str
upper_set(m) == {upper(m.items[i]) : i \in 1..Len(m.items)}

\* the orders in which tuple(set(...)) may enumerate the set S: the iteration
\* order of a set of str depends on the process's hash seed
Orders(S) ==
    {o \in [1..Cardinality(S) -> S] : \A x \in S : \E i \in 1..Cardinality(S) : o[i] = x}

\* the orders add_route's caller may observe for a `methods` argument
MethodOrders(m) ==
    IF iterable(m) /\ \A i \in 1..Len(m.items) : isinstance_str(m.items[i])
    THEN Orders(upper_set(m))
    ELSE {<<>>}

\* Route.__init__: the exception it raises, or the object with identity id
Route_init(id, name, pattern, handler, methods, order) ==
    IF ~iterable(methods)
    THEN [raised |-> "TypeError", route |-> None]
    ELSE IF \E i \in 1..Len(methods.items) : ~isinstance_str(methods.items[i])
    THEN [raised |-> "AttributeError", route |-> None]
    ELSE [raised |-> NoError,
          route  |-> [t |-> "Route", id |-> id, name |-> name, pattern |-> pattern,
                      handler |-> handler, methods |-> order]]

----------------------------------------------------------------------------
(* Router (src/fusi/router.py) *)

\* init_raises refusing the empty prefix too (`if prefix is not None and ...`)
init_raises_on_empty(prefix) == prefix.t = "str" /\ ~startswith(prefix, Slash)

\* Router.__init__ raises for this prefix
init_raises(prefix) == truthy(prefix) /\ ~startswith(prefix, Slash)

\* match_name_run without the `except KeyError`
match_name_run_uncaught(routes, name, fallback) ==
    LET got == dict_getitem(routes, name)
    IN  [ret |-> got.value, raised |-> got.raised, calls |-> 1]

\* Router.match_name, with the number of calls of match_name it took:
\* self._routes[name], and on KeyError one more match_name(fallback)
RECURSIVE match_name_run(_, _, _)
match_name_run(routes, name, fallback) ==
    LET got == dict_getitem(routes, name)
    IN  IF got.raised = NoError
        THEN [ret |-> got.value, raised |-> NoError, calls |-> 1]
        ELSE IF got.raised = "KeyError" /\ truthy(fallback)
        THEN LET inner == match_name_run(routes, fallback, None)
             IN  [ret |-> inner.ret, raised |-> inner.raised, calls |-> inner.calls + 1]
        ELSE IF got.raised = "KeyError"
        THEN [ret |-> None, raised |-> NoError, calls |-> 1]
        ELSE [ret |-> None, raised |-> got.raised, calls |-> 1]

match_name(routes, name, fallback) == match_name_run(routes, name, fallback).ret

\* Router.is_pattern_match
is_pattern_match(pattern, route) == pattern = route.pattern

\* match_pattern_scan returning the last Route that matches, not the first
match_pattern_scan_last(routes, pattern, fallback) ==
    LET rs   == dict_values(routes)
        hits == {i \in 1..Len(rs) : is_pattern_match(pattern, rs[i])}
    IN  IF hits /= {}
        THEN rs[CHOOSE i \in hits : \A j \in hits : i >= j]
        ELSE IF truthy(fallback)
        THEN match_name(routes, fallback, None)
        ELSE None

\* the body of Router.match_pattern: what a call that misses the cache computes
match_pattern_scan(routes, pattern, fallback) ==
    LET rs   == dict_values(routes)
        hits == {i \in 1..Len(rs) : is_pattern_match(pattern, rs[i])}
    IN  IF hits /= {}
        THEN rs[CHOOSE i \in hits : \A j \in hits : i <= j]
        ELSE IF truthy(fallback)
        THEN match_name(routes, fallback, None)
        ELSE None

\* prepare_route_name joining the two names without the "."
prepare_route_name_no_dot(rname, name) ==
    IF truthy(rname) THEN concat(rname, name) ELSE name

\* Router.prepare_route_name
prepare_route_name(rname, name) ==
    IF truthy(rname) THEN concat(concat(rname, Dot), name) ELSE name

\* Router.check_route_name: never raises
check_route_name_raises(name) == FALSE

\* Router.prepare_route_pattern
prepare_route_pattern(rprefix, pattern) ==
    IF truthy(rprefix) THEN concat(rprefix, pattern) ELSE pattern

\* check_route_pattern refusing the patterns that do start with "/"
check_route_pattern_raises_on_slash(pattern) == startswith(pattern, Slash)

\* check_route_pattern returning False where it should raise
check_route_pattern_never_raises(pattern) == FALSE

\* Router.check_route_pattern raises for this pattern
check_route_pattern_raises(pattern) == ~startswith(pattern, Slash)

\* Router.prepare_route_handler
prepare_route_handler(handler) == handler

NoMessage == [text |-> "", param |-> "", type |-> ""]

\* the outcome of a call of add_route that raises
Raise(routes, raised, msg, hooks) ==
    [routes |-> routes, ret |-> None, raised |-> raised, msg |-> msg, hooks |-> hooks]

\* store_route with the assignment left out
store_route_skipped(routes, route_name, route) == routes

\* store_route keyed by the route's pattern
store_route_by_pattern(routes, route_name, route) == dict_set(routes, route.pattern, route)

\* self._routes[route_name] = route
store_route(routes, route_name, route) == dict_set(routes, route_name, route)

\* is_duplicate testing `route_name in self.routes`, the list of Route objects
is_duplicate_in_values(routes, route_name) ==
    \E i \in 1..Len(routes) : routes[i].value = route_name

\* route_name in self._routes
is_duplicate(routes, route_name) == dict_contains(routes, route_name)

\* add_route_checked running check_route_name and check_route_pattern before
\* it looks for the name in the registry
add_route_checked_hooks_first(routes, rname, rprefix, name, pattern, handler, methods, order) ==
    LET route_name    == prepare_route_name(rname, name)
        route_pattern == prepare_route_pattern(rprefix, pattern)
        h2 == <<"prepare_route_name", "prepare_route_pattern", "check_route_name",
                "check_route_pattern">>
    IN  IF check_route_pattern_raises(route_pattern)
        THEN Raise(routes, "RouterError",
                   [text |-> "must start with a '/'", param |-> "pattern", type |-> ""], h2)
        ELSE IF is_duplicate(routes, route_name)
        THEN Raise(routes, "RouterError",
                   [text |-> "already exists", param |-> "name", type |-> ""], h2)
        ELSE
        LET h3   == h2 \o <<"prepare_route_handler", "Route">>
            made == Route_init(Len(routes) + 1, route_name, route_pattern,
                               prepare_route_handler(handler), methods, order)
        IN  IF made.raised /= NoError
            THEN Raise(routes, made.raised, NoMessage, h3)
            ELSE [routes |-> store_route(routes, route_name, made.route),
                  ret |-> made.route, raised |-> NoError, msg |-> NoMessage, hooks |-> h3]

\* add_route_checked storing the route before check_route_pattern runs
add_route_checked_store_first(routes, rname, rprefix, name, pattern, handler, methods, order) ==
    LET route_name == prepare_route_name(rname, name)
        h1 == <<"prepare_route_name">>
    IN  IF is_duplicate(routes, route_name)
        THEN Raise(routes, "RouterError",
                   [text |-> "already exists", param |-> "name", type |-> ""], h1)
        ELSE
        LET route_pattern == prepare_route_pattern(rprefix, pattern)
            h2   == h1 \o <<"prepare_route_pattern", "prepare_route_handler", "Route">>
            made == Route_init(Len(routes) + 1, route_name, route_pattern,
                               prepare_route_handler(handler), methods, order)
        IN  IF made.raised /= NoError
            THEN Raise(routes, made.raised, NoMessage, h2)
            ELSE
            LET stored == store_route(routes, route_name, made.route)
                h3 == h2 \o <<"check_route_name", "check_route_pattern">>
            IN  IF check_route_pattern_raises(route_pattern)
                THEN Raise(stored, "RouterError",
                           [text |-> "must start with a '/'", param |-> "pattern",
                            type |-> ""], h3)
                ELSE [routes |-> stored, ret |-> made.route, raised |-> NoError,
                      msg |-> NoMessage, hooks |-> h3]

\* Router.add_route once the types of its arguments are checked: the registry
\* after the call, what it returns or raises, and the hooks it called, in order
add_route_checked(routes, rname, rprefix, name, pattern, handler, methods, order) ==
    LET route_name == prepare_route_name(rname, name)
        h1 == <<"prepare_route_name">>
    IN  IF is_duplicate(routes, route_name)
        THEN Raise(routes, "RouterError",
                   [text |-> "already exists", param |-> "name", type |-> ""], h1)
        ELSE
        LET route_pattern == prepare_route_pattern(rprefix, pattern)
            h2 == h1 \o <<"prepare_route_pattern", "check_route_name">>
        IN  IF check_route_name_raises(route_name)
            THEN Raise(routes, "RouterError", NoMessage, h2)
            ELSE IF check_route_pattern_raises(route_pattern)
            THEN Raise(routes, "RouterError",
                       [text |-> "must start with a '/'", param |-> "pattern", type |-> ""],
                       h2 \o <<"check_route_pattern">>)
            ELSE
            LET route_handler == prepare_route_handler(handler)
                h3   == h2 \o <<"check_route_pattern", "prepare_route_handler", "Route">>
                made == Route_init(Len(routes) + 1, route_name, route_pattern,
                                   route_handler, methods, order)
            IN  IF made.raised /= NoError
                THEN Raise(routes, made.raised, NoMessage, h3)
                ELSE [routes |-> store_route(routes, route_name, made.route),
                      ret    |-> made.route,
                      raised |-> NoError,
                      msg    |-> NoMessage,
                      hooks  |-> h3]

\* Router.add_route
add_route(routes, rname, rprefix, name, pattern, handler, methods, order) ==
    IF ~isinstance_str(name)
    THEN Raise(routes, "RouterError",
               [text |-> "must be a string", param |-> "name", type |-> pattern.t], <<>>)
    ELSE IF ~isinstance_str(pattern)
    THEN Raise(routes, "RouterError",
               [text |-> "must be a string", param |-> "pattern", type |-> pattern.t], <<>>)
    ELSE IF ~callable(handler)
    THEN Raise(routes, "RouterError",
               [text |-> "must be callable", param |-> "handler", type |-> handler.t], <<>>)
    ELSE add_route_checked(routes, rname, rprefix, name, pattern, handler, methods, order)

\* `x is y` for two objects; a str is never a Route
same_object(x, y) == x.t = "Route" /\ y.t = "Route" /\ x.id = y.id

\* contains testing `item in self._routes`, the keys of the dict
contains_in_keys(routes, item) == dict_contains(routes, item)

\* Router.__contains__: item in self.routes, a list of Route objects, which
\* compare by identity (Route defines no __eq__)
contains(routes, item) ==
    LET rs == dict_values(routes)
    IN  \E i \in 1..Len(rs) : same_object(rs[i], item)

\* Router.__len__
router_len(routes) == Len(routes)

\* items yielding the routes last registered first
items_reversed(routes) ==
    [i \in 1..Len(routes) |->
        <<routes[Len(routes) + 1 - i].key, routes[Len(routes) + 1 - i].value>>]

\* Router.items: the (name, route) pairs the generator yields, in order
items(routes) == [i \in 1..Len(routes) |-> <<routes[i].key, routes[i].value>>]

----------------------------------------------------------------------------
(* functools.lru_cache around Router.match_pattern *)

\* the place of the key (pattern, fallback) in the cache, 0 when it is absent
cache_index(c, pattern, fallback) ==
    IF \E i \in 1..Len(c) : c[i].pattern = pattern /\ c[i].fallback = fallback
    THEN CHOOSE i \in 1..Len(c) : c[i].pattern = pattern /\ c[i].fallback = fallback
    ELSE 0

\* the sequence c without its i-th element
remove_at(c, i) == SubSeq(c, 1, i - 1) \o SubSeq(c, i + 1, Len(c))

\* a call of the decorated match_pattern: a hit returns the stored result and
\* makes the entry the most recently used; a miss runs the body, stores the
\* result and drops the least recently used entry of a full cache
match_pattern(c, routes, pattern, fallback) ==
    LET i == cache_index(c, pattern, fallback)
    IN  IF i /= 0
        THEN [cache |-> Append(remove_at(c, i), c[i]), ret |-> c[i].value, hit |-> TRUE]
        ELSE LET result == match_pattern_scan(routes, pattern, fallback)
                 entry  == [pattern |-> pattern, fallback |-> fallback, value |-> result]
                 kept   == IF Len(c) >= LruMaxSize THEN Tail(c) ELSE c
             IN  [cache |-> Append(kept, entry), ret |-> result, hit |-> FALSE]

----------------------------------------------------------------------------
(* The arguments the calls are made with *)

\* (name, prefix) pairs a Router is constructed with
RouterArgs ==
    {<<None, None>>, <<Str(<<>>), Str(<<>>)>>, <<Str(<<"p">>), Str(<<"/", "v">>)>>,
     <<None, Str(<<"v">>)>>, <<Str(<<"p">>), Str(<<"v">>)>>}

NameArgs == {Str(<<>>), Str(<<"a">>), Int1}

PatternArgs == {Str(<<"/", "a">>), Str(<<"a">>), Int1}

HandlerArgs == {Fn, Str(<<"f">>)}

MethodsArgs == {List(<<Str(<<"g", "e", "t">>)>>), NotIterable}

\* (name, pattern, handler, methods) of the add_route calls: every name and
\* pattern with a handler and methods of the right type, and every name and
\* pattern of the right type with every handler and methods
AddRouteArgs ==
    {args \in NameArgs \X PatternArgs \X HandlerArgs \X MethodsArgs :
        \/ callable(args[3]) /\ args[4] = List(<<Str(<<"g", "e", "t">>)>>)
        \/ isinstance_str(args[1]) /\ isinstance_str(args[2]) /\ callable(args[3])
        \/ /\ isinstance_str(args[1]) /\ isinstance_str(args[2])
           /\ args[4] = List(<<Str(<<"g", "e", "t">>)>>)}

\* names to look up: names add_route can have stored, and one it cannot
LookupNames ==
    {prepare_route_name(self_name, Str(<<>>)), prepare_route_name(self_name, Str(<<"a">>)),
     Str(<<"x">>)}

FallbackArgs == {None, Str(<<>>), prepare_route_name(self_name, Str(<<"a">>))}

\* fallbacks of match_pattern: none, and a name add_route can have stored (the
\* empty name, for a Router without a name)
PatternFallbackArgs == {None, prepare_route_name(self_name, Str(<<>>))}

\* patterns to look up: a pattern add_route can have stored, and one it cannot
LookupPatterns == {prepare_route_pattern(self_prefix, Str(<<"/", "a">>)), Str(<<"/", "x">>)}

\* a Route object the caller has made itself, with the given name
ForeignRoute(name) ==
    Route_init(0, name, prepare_route_pattern(self_prefix, Str(<<"/", "a">>)), Fn,
               List(<<Str(<<"g", "e", "t">>)>>), <<Str(<<"G", "E", "T">>)>>).route

\* objects to test with `in`: the registered Routes, a Route of the caller's
\* with a name add_route can have stored, and one with a name it cannot
ContainsArgs ==
    {self_routes[i].value : i \in 1..Len(self_routes)}
        \cup {ForeignRoute(prepare_route_name(self_name, Str(<<"a">>))),
              ForeignRoute(Str(<<"x">>))}

----------------------------------------------------------------------------
(* The calls *)

NoCall ==
    [op |-> "none", name |-> None, pattern |-> None, handler |-> None,
     methods |-> NotIterable, fallback |-> None, ret |-> None, raised |-> NoError,
     msg |-> NoMessage, hooks |-> <<>>, calls |-> 0, hit |-> FALSE,
     item |-> None, found |-> FALSE, len |-> 0, items |-> <<>>]

Init ==
    /\ pc = "new"
    /\ self_name = None
    /\ self_prefix = None
    /\ self_routes = <<>>
    /\ cache = <<>>
    /\ added_after_lookup = FALSE
    /\ returned = <<>>
    /\ seen = {}
    /\ last = NoCall

\* Router(name, prefix)
Construct(name, prefix) ==
    /\ pc = "new"
    /\ IF init_raises(prefix)
       THEN /\ pc' = "failed"
            /\ last' = [NoCall EXCEPT !.op = "__init__", !.name = name, !.pattern = prefix,
                                      !.raised = "RouterError"]
            /\ UNCHANGED <<self_name, self_prefix>>
       ELSE /\ pc' = "ready"
            /\ self_name' = name
            /\ self_prefix' = prefix
            /\ last' = [NoCall EXCEPT !.op = "__init__", !.name = name, !.pattern = prefix]
    /\ UNCHANGED <<self_routes, cache, added_after_lookup, returned, seen>>

\* router.add_route(name, pattern, handler, methods)
AddRoute(name, pattern, handler, methods, order) ==
    /\ pc = "ready"
    /\ LET run == add_route(self_routes, self_name, self_prefix,
                            name, pattern, handler, methods, order)
       IN  /\ self_routes' = run.routes
           /\ added_after_lookup' = (added_after_lookup \/ (run.raised = NoError /\ cache /= <<>>))
           /\ returned' = IF run.raised = NoError THEN Append(returned, run.ret) ELSE returned
           /\ seen' = IF run.raised = NoError THEN {} ELSE seen
           /\ last' = [NoCall EXCEPT !.op = "add_route", !.name = name, !.pattern = pattern,
                                     !.handler = handler, !.methods = methods,
                                     !.ret = run.ret, !.raised = run.raised,
                                     !.msg = run.msg, !.hooks = run.hooks]
    /\ UNCHANGED <<pc, self_name, self_prefix, cache>>

\* router.match_name(name, fallback)
MatchName(name, fallback) ==
    /\ pc = "ready"
    /\ LET run == match_name_run(self_routes, name, fallback)
       IN  last' = [NoCall EXCEPT !.op = "match_name", !.name = name, !.fallback = fallback,
                                  !.ret = run.ret, !.raised = run.raised, !.calls = run.calls]
    /\ UNCHANGED <<pc, self_name, self_prefix, self_routes, cache, added_after_lookup,
                   returned, seen>>

\* the lookup is of a key the cache holds, or the cache has fewer than
\* MaxCacheEntries keys
CacheRoom(pattern, fallback) ==
    cache_index(cache, pattern, fallback) /= 0 \/ Len(cache) < MaxCacheEntries

\* router.match_pattern(pattern, fallback)
MatchPattern(pattern, fallback) ==
    /\ pc = "ready"
    /\ LET run == match_pattern(cache, self_routes, pattern, fallback)
       IN  /\ cache' = run.cache
           /\ seen' = seen \cup {[pattern |-> pattern, fallback |-> fallback,
                                  value |-> run.ret]}
           /\ last' = [NoCall EXCEPT !.op = "match_pattern", !.pattern = pattern,
                                     !.fallback = fallback, !.ret = run.ret, !.hit = run.hit]
    /\ UNCHANGED <<pc, self_name, self_prefix, self_routes, added_after_lookup, returned>>

\* item in router
Contains(item) ==
    /\ pc = "ready"
    /\ last' = [NoCall EXCEPT !.op = "__contains__", !.item = item,
                              !.found = contains(self_routes, item)]
    /\ UNCHANGED <<pc, self_name, self_prefix, self_routes, cache, added_after_lookup,
                   returned, seen>>

\* len(router)
LenCall ==
    /\ pc = "ready"
    /\ last' = [NoCall EXCEPT !.op = "__len__", !.len = router_len(self_routes)]
    /\ UNCHANGED <<pc, self_name, self_prefix, self_routes, cache, added_after_lookup,
                   returned, seen>>

\* list(router.items())
Items ==
    /\ pc = "ready"
    /\ last' = [NoCall EXCEPT !.op = "items", !.items = items(self_routes)]
    /\ UNCHANGED <<pc, self_name, self_prefix, self_routes, cache, added_after_lookup,
                   returned, seen>>

Next ==
    \/ \E args \in RouterArgs : Construct(args[1], args[2])
    \/ \E args \in AddRouteArgs :
            \E order \in MethodOrders(args[4]) :
                AddRoute(args[1], args[2], args[3], args[4], order)
    \/ \E name \in LookupNames, fallback \in FallbackArgs : MatchName(name, fallback)
    \/ \E pattern \in LookupPatterns, fallback \in PatternFallbackArgs :
            CacheRoom(pattern, fallback) /\ MatchPattern(pattern, fallback)
    \/ \E item \in ContainsArgs : Contains(item)
    \/ LenCall
    \/ Items

Spec == Init /\ [][Next]_vars

----------------------------------------------------------------------------
(* Route(name, pattern, handler, methods) for every `methods` of up to
   MaxMethods values *)

MethodTokens ==
    {Str(<<"g", "e", "t">>), Str(<<"G", "E", "T">>), Str(<<"G", "e", "t">>),
     Str(<<"p", "o", "s", "t">>), Int1}

MethodsLists ==
    {List(s) : s \in UNION {[1..n -> MethodTokens] : n \in 0..MaxMethods}} \cup {NotIterable}

RouteInit ==
    /\ pc = "route"
    /\ self_name = None
    /\ self_prefix = None
    /\ self_routes = <<>>
    /\ cache = <<>>
    /\ added_after_lookup = FALSE
    /\ returned = <<>>
    /\ seen = {}
    /\ \E methods \in MethodsLists : last = [NoCall EXCEPT !.methods = methods]

\* Route("a", "/a", handler, methods)
NewRoute(order) ==
    /\ pc = "route"
    /\ LET run == Route_init(0, Str(<<"a">>), Str(<<"/", "a">>), Fn, last.methods, order)
       IN  last' = [last EXCEPT !.op = "Route", !.ret = run.route, !.raised = run.raised]
    /\ pc' = "done"
    /\ UNCHANGED <<self_name, self_prefix, self_routes, cache, added_after_lookup,
                   returned, seen>>

RouteNext == \E order \in MethodOrders(last.methods) : NewRoute(order)

RouteSpec == RouteInit /\ [][RouteNext]_vars

----------------------------------------------------------------------------
(* One Router that fills its lookup cache: a Router without name and prefix,
   the route "a" at "/a" registered before the other patterns are looked up,
   lookups of "/a", and lookups of LruMaxSize other patterns made one after
   the other once "/a" has been looked up *)

Get == List(<<Str(<<"g", "e", "t">>)>>)

\* the k-th other pattern: "/x", "/xx", ...
OtherPattern(k) == Str(<<"/">> \o [i \in 1..k |-> "x"])

FillNext ==
    \/ Construct(None, None)
    \/ \E order \in MethodOrders(Get) :
            Len(cache) <= 1 /\ AddRoute(Str(<<"a">>), Str(<<"/", "a">>), Fn, Get, order)
    \/ Len(cache) \in {0, 1, LruMaxSize} /\ MatchPattern(Str(<<"/", "a">>), None)
    \/ \E k \in 1..LruMaxSize : Len(cache) = k /\ MatchPattern(OtherPattern(k), None)

FillSpec == Init /\ [][FillNext]_vars

----------------------------------------------------------------------------
(* Properties *)

\* the last call was add_route and it returned a Route
Added == last.op = "add_route" /\ last.raised = NoError

\* the qualified name add_route gives the str `name` on this Router
Qualified(name) == prepare_route_name(self_name, name)

\* C1: after every add_route call that succeeds and returns Route R, a
\* match_name(R.name) without fallback made next returns that same Route R,
\* whether the Router has a name and a prefix or not.
C1_RegisterThenLookup ==
    Added =>
        match_name_run(self_routes, last.ret.name, None)
            = [ret |-> last.ret, raised |-> NoError, calls |-> 1]

\* a Router with a name and a prefix has just registered its second route
C1_Witness ==
    /\ Added
    /\ truthy(self_name) /\ truthy(self_prefix)
    /\ Len(self_routes) = 2
    /\ last.ret.id = 2

\* C2: in every state reached by add_route calls, successful or failed, no two
\* Routes of the Router share a qualified name, and each Route is stored under
\* the key equal to its own name.
C2_NameUniqueness ==
    /\ \A i, j \in 1..Len(self_routes) :
         i /= j => self_routes[i].value.name /= self_routes[j].value.name
    /\ \A i \in 1..Len(self_routes) : self_routes[i].key = self_routes[i].value.name

\* two routes are registered and the last add_route call was refused as a duplicate
C2_Witness ==
    /\ Len(self_routes) = 2
    /\ last.op = "add_route"
    /\ last.raised = "RouterError"
    /\ last.msg.text = "already exists"

\* C3: an add_route call with a name whose qualified name is already in the
\* registry raises RouterError, leaves the size of the registry unchanged, and
\* leaves the Route registered under that name bound to it.
C3_DuplicateRejected ==
    [][ (/\ last'.op = "add_route"
         /\ isinstance_str(last'.name)
         /\ dict_contains(self_routes, Qualified(last'.name)))
        => (/\ last'.raised = "RouterError"
            /\ Len(self_routes') = Len(self_routes)
            /\ dict_getitem(self_routes', Qualified(last'.name))
                 = dict_getitem(self_routes, Qualified(last'.name))) ]_vars

\* a call with valid arguments and a registered name has been refused
C3_Witness ==
    /\ last.op = "add_route"
    /\ isinstance_str(last.name) /\ isinstance_str(last.pattern)
    /\ callable(last.handler) /\ iterable(last.methods)
    /\ dict_contains(self_routes, Qualified(last.name))
    /\ last.raised = "RouterError"
    /\ last.msg.text = "already exists"

\* C4: an add_route call that fails, for whatever cause, leaves the registry
\* exactly as it was: the same names bound to the same Routes in the same order.
C4_AtomicFailure ==
    [][ (last'.op = "add_route" /\ last'.raised /= NoError)
        => self_routes' = self_routes ]_vars

\* a call has failed in Route.__init__, the last step before the route is
\* stored, on a registry that holds a route
C4_Witness ==
    /\ last.op = "add_route"
    /\ last.raised \in {"TypeError", "AttributeError"}
    /\ Len(self_routes) = 1

\* the first Route, in registration order, whose stored pattern is `pattern`
FirstWithPattern(pattern) ==
    LET hits == {i \in 1..Len(self_routes) : self_routes[i].value.pattern = pattern}
    IN  IF hits = {}
        THEN None
        ELSE self_routes[CHOOSE i \in hits : \A j \in hits : i <= j].value

\* C5: when all registrations precede all lookups, match_pattern(p, fallback)
\* returns the first Route in registration order whose stored pattern equals p;
\* if there is none and a fallback is supplied, what match_name(fallback)
\* returns; otherwise None.
C5_PatternLookup ==
    (last.op = "match_pattern" /\ ~added_after_lookup) =>
        last.ret =
            IF FirstWithPattern(last.pattern) /= None
            THEN FirstWithPattern(last.pattern)
            ELSE IF last.fallback /= None
            THEN match_name(self_routes, last.fallback, None)
            ELSE None

\* C6: every match_pattern(p, fallback) call, however it interleaves with
\* add_route calls, returns what a scan of the registry as it is at the time of
\* the call returns.
C6_NoStaleLookup ==
    last.op = "match_pattern" =>
        last.ret = match_pattern_scan(self_routes, last.pattern, last.fallback)

\* C7: for an unregistered name m, match_name(m, fallback=e) returns the Route
\* registered under e for every registered qualified name e, and match_name(m)
\* without fallback returns None.
C7_NameFallback ==
    (last.op = "match_name" /\ ~dict_contains(self_routes, last.name)) =>
        /\ (last.fallback /= None /\ dict_contains(self_routes, last.fallback))
             => last.ret = dict_getitem(self_routes, last.fallback).value
        /\ last.fallback = None => last.ret = None

\* C8: match_name never raises; for an unregistered name whose fallback is not
\* supplied or is itself unregistered it returns None; and the fallback is looked
\* up at most once, without a fallback of its own (at most one nested call).
C8_NameLookupShallow ==
    last.op = "match_name" =>
        /\ last.raised = NoError
        /\ last.calls <= 2
        /\ (/\ ~dict_contains(self_routes, last.name)
            /\ (last.fallback = None \/ ~dict_contains(self_routes, last.fallback)))
             => last.ret = None

\* an unregistered name was looked up with a fallback that is unregistered too,
\* while another route is registered
C8_Witness ==
    /\ last.op = "match_name"
    /\ ~dict_contains(self_routes, last.name)
    /\ truthy(last.fallback)
    /\ ~dict_contains(self_routes, last.fallback)
    /\ last.calls = 2
    /\ Len(self_routes) = 1

\* the Router has a name, a prefix: a non-empty str (`if self.name`, `if self.prefix`)
HasName == self_name /= None /\ Len(self_name.v) > 0

HasPrefix == self_prefix /= None /\ Len(self_prefix.v) > 0

\* C9: the Route a successful add_route(name, pattern, ...) returns and stores
\* has the name router.name + "." + name when the Router has a name and name
\* itself otherwise, and the pattern router.prefix + pattern when the Router has
\* a prefix and pattern itself otherwise.
C9_Qualification ==
    Added =>
        /\ last.ret.name.v =
             IF HasName THEN self_name.v \o <<".">> \o last.name.v ELSE last.name.v
        /\ last.ret.pattern.v =
             IF HasPrefix THEN self_prefix.v \o last.pattern.v ELSE last.pattern.v
        /\ \E i \in 1..Len(self_routes) : self_routes[i].value = last.ret

\* Router("p", "/v").add_route("a", "/a", ...) returned the Route "p.a" at "/v/a"
C9_Witness ==
    /\ Added
    /\ self_name = Str(<<"p">>)
    /\ self_prefix = Str(<<"/", "v">>)
    /\ last.ret.name = Str(<<"p", ".", "a">>)
    /\ last.ret.pattern = Str(<<"/", "v", "/", "a">>)

\* the str `pattern` does not start with "/"
NoLeadingSlash(pattern) ==
    isinstance_str(pattern) /\ (Len(pattern.v) = 0 \/ pattern.v[1] /= "/")

\* C10 as stated: on any Router, whatever its name and prefix, add_route with a
\* pattern argument that does not start with "/" raises RouterError and leaves
\* the registry as it was.
C10_NoSlashRejected ==
    [][ (last'.op = "add_route" /\ NoLeadingSlash(last'.pattern))
        => (last'.raised = "RouterError" /\ self_routes' = self_routes) ]_vars

\* C10 as amended: on a Router whose prefix is absent or empty, add_route with a
\* pattern argument that does not start with "/" raises RouterError and leaves
\* the registry as it was.
C10_NoSlashRejectedWithoutPrefix ==
    [][ (last'.op = "add_route" /\ ~HasPrefix /\ NoLeadingSlash(last'.pattern))
        => (last'.raised = "RouterError" /\ self_routes' = self_routes) ]_vars

\* a Router without prefix that holds a route has refused a pattern without
\* leading slash in check_route_pattern
C10_Witness ==
    /\ last.op = "add_route"
    /\ ~HasPrefix
    /\ NoLeadingSlash(last.pattern)
    /\ last.raised = "RouterError"
    /\ last.msg.text = "must start with a '/'"
    /\ Len(self_routes) = 1


\* every lookup made on the Router as it is now returns None
NothingMatches ==
    /\ \A name \in LookupNames, fallback \in FallbackArgs :
         match_name_run(self_routes, name, fallback).ret = None
    /\ \A pattern \in LookupPatterns, fallback \in PatternFallbackArgs :
         match_pattern(cache, self_routes, pattern, fallback).ret = None

\* C11: Router(name, prefix) raises RouterError exactly when prefix is
\* non-empty and does not start with "/"; in every other case (prefix absent,
\* empty, or starting with "/") it stores name and prefix as given and the
\* registry is empty: size 0, every lookup returns None.
C11_Construction ==
    last.op = "__init__" =>
        /\ last.raised = "RouterError"
             <=> (/\ isinstance_str(last.pattern)
                  /\ Len(last.pattern.v) > 0
                  /\ last.pattern.v[1] /= "/")
        /\ last.raised = "RouterError" => pc = "failed"
        /\ last.raised /= "RouterError" =>
             /\ last.raised = NoError
             /\ pc = "ready"
             /\ self_name = last.name
             /\ self_prefix = last.pattern
             /\ Len(self_routes) = 0
             /\ NothingMatches

\* Router(name="", prefix="") was constructed: the empty prefix is accepted and
\* stored as given
C11_Witness ==
    /\ last.op = "__init__"
    /\ pc = "ready"
    /\ self_name = Str(<<>>)
    /\ self_prefix = Str(<<>>)


----------------------------------------------------------------------------
\* C12: idempotence of lookups.  Repeating match_pattern with identical
\* arguments and no registration in between gives the identical result: the
\* results recorded in seen since the latest registration agree for every
\* (pattern, fallback).  (match_name reads the registry alone, so its half of
\* the claim cannot fail; the lookups through the cache can.)
C12_SeenIsFunctional ==
    \A e1 \in seen : \A e2 \in seen :
        (e1.pattern = e2.pattern /\ e1.fallback = e2.fallback) => e1.value = e2.value


----------------------------------------------------------------------------
\* the (name, Route) pairs of the Routes add_route has returned, in the order
\* of the calls
ReturnedItems == [i \in 1..Len(returned) |-> <<returned[i].name, returned[i]>>]

\* C13: append-only registry in registration order.  items() is one
\* (qualified name, Route) pair for each add_route call that succeeded, in
\* the order of the calls, and len() is the number of those calls: nothing
\* registered is removed, replaced or moved.
C13_AppendOnly ==
    /\ items(self_routes) = ReturnedItems
    /\ router_len(self_routes) = Len(returned)
    /\ last.op = "items" => last.items = ReturnedItems
    /\ last.op = "__len__" => last.len = Len(returned)

\* items() of a registry of two routes, "a" registered before ""
C13_Witness ==
    /\ last.op = "items"
    /\ Len(last.items) = 2
    /\ last.items[1][1] = Qualified(Str(<<"a">>))
    /\ last.items[2][1] = Qualified(Str(<<>>))


----------------------------------------------------------------------------
\* the object is one of the Routes add_route has returned
IsReturned(item) == \E i \in 1..Len(returned) : same_object(returned[i], item)

\* a Route is registered under the name of the object
NameIsRegistered(item) == \E i \in 1..Len(self_routes) : self_routes[i].key = item.name

\* C14 as stated: containment.  `r in router` is true exactly when r is
\* identical to a registered Route or has the qualified name of one.
C14_ContainsByIdentityOrName ==
    last.op = "__contains__" =>
        (last.found <=> (IsReturned(last.item) \/ NameIsRegistered(last.item)))

\* C14 amended: `r in router` is true exactly when r is identical to a
\* registered Route; it is true of every Route add_route has returned, and
\* false of any other Route, whatever its name.
C14_ContainsByIdentity ==
    /\ last.op = "__contains__" => (last.found <=> IsReturned(last.item))
    /\ \A i \in 1..Len(returned) : contains(self_routes, returned[i])

\* `in` was applied to a Route of the caller's own that has the name of a
\* registered Route, and answered false
C14_Witness ==
    /\ last.op = "__contains__"
    /\ NameIsRegistered(last.item)
    /\ ~IsReturned(last.item)
    /\ ~last.found


----------------------------------------------------------------------------
\* C15: methods normalization.  A Route made from an iterable of strings
\* stores, as a set, the upper-cased tokens of the input, each once.
C15_MethodsNormalized ==
    (last.op = "Route" /\ last.raised = NoError) =>
        LET given  == last.methods.items
            stored == last.ret.methods
        IN  /\ \A i \in 1..Len(given) : \E j \in 1..Len(stored) : stored[j] = upper(given[i])
            /\ \A j \in 1..Len(stored) : \E i \in 1..Len(given) : stored[j] = upper(given[i])
            /\ \A j \in 1..Len(stored) : \A k \in 1..Len(stored) :
                    stored[j] = stored[k] => j = k

\* a Route made from three tokens, "get" and "GET" among them, that stores two
C15_Witness ==
    /\ last.op = "Route"
    /\ last.raised = NoError
    /\ Len(last.methods.items) = 3
    /\ \E i \in 1..3 : last.methods.items[i] = Str(<<"g", "e", "t">>)
    /\ \E i \in 1..3 : last.methods.items[i] = Str(<<"G", "E", "T">>)
    /\ Len(last.ret.methods) = 2


----------------------------------------------------------------------------
\* C16: type-validation errors name the offender.  When add_route fails
\* because the name or the pattern is not a string or the handler is not
\* callable, the error names the first such argument (in the order name,
\* pattern, handler) and reports the type of that same argument.
C16_ErrorNamesOffender ==
    LET bad_name    == ~isinstance_str(last.name)
        bad_pattern == ~isinstance_str(last.pattern)
        bad_handler == ~callable(last.handler)
        offender    == IF bad_name THEN [param |-> "name", value |-> last.name]
                       ELSE IF bad_pattern THEN [param |-> "pattern", value |-> last.pattern]
                       ELSE [param |-> "handler", value |-> last.handler]
    IN  (last.op = "add_route" /\ (bad_name \/ bad_pattern \/ bad_handler)) =>
            /\ last.raised = "RouterError"
            /\ last.msg.param = offender.param
            /\ last.msg.type = offender.value.t


----------------------------------------------------------------------------
\* C17: methods type validation.  An add_route call whose name, pattern and
\* handler are of the right types and whose methods is not an iterable of
\* strings fails with RouterError, and with no other kind of error.
C17_BadMethodsRouterError ==
    (/\ last.op = "add_route"
     /\ isinstance_str(last.name) /\ isinstance_str(last.pattern) /\ callable(last.handler)
     /\ ~(/\ iterable(last.methods)
          /\ \A i \in 1..Len(last.methods.items) : isinstance_str(last.methods.items[i])))
        => last.raised = "RouterError"


----------------------------------------------------------------------------
\* the hooks that validate or prepare the new registration
ValidationHooks == {"check_route_name", "check_route_pattern", "prepare_route_handler"}

\* C18: hook ordering on duplicates.  An add_route call whose qualified name
\* is already registered calls none of check_route_name, check_route_pattern
\* and prepare_route_handler, and, its arguments being of the right types,
\* fails with the duplicate-name error, whatever its pattern.
C18_DuplicateBeforeHooks ==
    [][ (/\ last'.op = "add_route"
         /\ isinstance_str(last'.name)
         /\ dict_contains(self_routes, Qualified(last'.name)))
        => (/\ \A i \in 1..Len(last'.hooks) : last'.hooks[i] \notin ValidationHooks
            /\ (isinstance_str(last'.pattern) /\ callable(last'.handler))
                  => (last'.raised = "RouterError" /\ last'.msg.text = "already exists")) ]_vars

\* a call with a registered name and a pattern check_route_pattern would
\* refuse has failed with the duplicate-name error
C18_Witness ==
    /\ last.op = "add_route"
    /\ dict_contains(self_routes, Qualified(last.name))
    /\ NoLeadingSlash(last.pattern)
    /\ ~HasPrefix
    /\ callable(last.handler)
    /\ last.raised = "RouterError"
    /\ last.msg.text = "already exists"
    /\ last.hooks = <<"prepare_route_name">>


----------------------------------------------------------------------------
\* C19: stored-pattern invariant.  Every Route the Router owns has a pattern
\* that is not empty and begins with "/".
C19_StoredPatternsStartWithSlash ==
    \A i \in 1..Len(self_routes) :
        LET pattern == self_routes[i].value.pattern
        IN  /\ isinstance_str(pattern)
            /\ Len(pattern.v) > 0
            /\ pattern.v[1] = "/"

\* a Router with a prefix has stored a Route for a pattern argument that
\* does not begin with "/"
C19_Witness ==
    /\ Added
    /\ HasPrefix
    /\ NoLeadingSlash(last.pattern)
    /\ \E i \in 1..Len(self_routes) :
          /\ same_object(self_routes[i].value, last.ret)
          /\ self_routes[i].value.pattern = Str(<<"/", "v", "a">>)


----------------------------------------------------------------------------
\* the result of match_pattern(pattern, ...) is a Route stored with `pattern`
DirectHit(pattern, value) == value.t = "Route" /\ value.pattern = pattern

\* C20: direct hits never go stale.  A Route that match_pattern(p, fallback)
\* returned and whose stored pattern is p is, after whatever add_route calls
\* followed, what the call returns again (the entry the cache keeps for it)
\* and what a scan of the registry as it is now returns: the first Route
\* registered with p.
C20_DirectHitsStayFresh ==
    /\ \A i \in 1..Len(cache) :
          DirectHit(cache[i].pattern, cache[i].value) =>
              /\ cache[i].value = match_pattern_scan(self_routes, cache[i].pattern,
                                                     cache[i].fallback)
              /\ cache[i].value = FirstWithPattern(cache[i].pattern)
    /\ (last.op = "match_pattern" /\ DirectHit(last.pattern, last.ret)) =>
          /\ last.ret = match_pattern_scan(self_routes, last.pattern, last.fallback)
          /\ last.ret = FirstWithPattern(last.pattern)

\* a lookup answered from the cache with a Route stored with the pattern,
\* after a second Route with the same pattern was registered
C20_Witness ==
    /\ last.op = "match_pattern"
    /\ last.hit
    /\ DirectHit(last.pattern, last.ret)
    /\ added_after_lookup
    /\ Len(self_routes) = 2
    /\ \A i \in 1..2 : self_routes[i].value.pattern = last.pattern
    /\ same_object(last.ret, self_routes[1].value)

====
